---------------------------- MODULE Spec2Model ----------------------------
(***************************************************************************)
(* The connection managers of src/datase/db.py (SqliteDB and PostgresDB)   *)
(* as a state machine of threads that call the constructor and the public  *)
(* operations of one manager class.  Every step is one line (or one        *)
(* interleaving point) of the Python code.                                 *)
(*                                                                         *)
(* The property loader and the two database drivers are the environment:   *)
(* each call into them has every outcome the call can have (it raises, or  *)
(* it returns).  load_properties is declared without parameters            *)
(* (db.py:124, db.py:282) and called with a path (db.py:42, db.py:184), and*)
(* _to_bool is declared without self (db.py:276) and called as a method    *)
(* (db.py:197, db.py:226): on CPython these calls raise TypeError, which is*)
(* the raising outcome of the step that makes them.  The returning outcome *)
(* is the one the callers, the class docstrings and dbtest.py are written  *)
(* for; without it no state behind the first connect would be reachable.   *)
(***************************************************************************)
EXTENDS Integers, Sequences, FiniteSets, TLC

\* ------------------------------------------------------------------ bounds
MaxStmts == 2        \* statements the callers execute on one connection
NumThreads == 2      \* threads of the process
MaxCalls == 3        \* calls (constructor or operation) started in one run
MaxConns == 2        \* physical connections the drivers open in one run

Threads == 1..NumThreads

\* ---------------------------------------------------------------- constants
None == 0            \* Python's None, for a reference held as a number

Classes == {"SqliteDB", "PostgresDB"}

\* The keys PostgresDB._build_conn_kwargs requires (db.py:51-53).
RequiredKeys == {"db.host", "db.name", "db.user", "db.password"}

\* A string is the sequence of its characters; PyNone is what dict.get returns
\* for a key the file does not have (no string equals it: its one element is
\* not a character).
PyNone == <<"<None>">>

Str1(a) == <<a>>
Str2(a, b) == <<a, b>>
Str3(a, b, c) == <<a, b, c>>
Str5(a, b, c, d, e) == <<a, b, c, d, e>>

\* The keys the two builders read.
Keys == RequiredKeys \cup {"db.port", "db.connect_timeout", "db.path",
                           "db.check_same_thread", "db.journal_mode", "db.foreign_keys",
                           "db.isolation_level"}

NoProps == [k \in Keys |-> PyNone]

DefaultPath == "../resources/hexawar.properties"

VARIABLES
  cls,             \* the manager class the process uses
  props,           \* the property file: key -> PropValues
  _instance,       \* cls._instance: None or the instance
  _instance_lock,  \* cls._instance_lock: None (free) or the owning thread
  obj,             \* the instances allocated: <<[_initialized, _properties_path, _conn, _conn_lock]>>
  locks,           \* the RLock objects created: <<[owner, count]>>
  conns,           \* the physical connections opened: <<[open, thread, check_same_thread, tuned, row_factory, closes]>>
  th,              \* per thread: the call it is in, its position and its locals
  calls,           \* calls started so far
  last,            \* what the call that returned in the latest step gave its caller
  coercion         \* a call of _to_bool: its arguments and its value

vars == <<cls, props, _instance, _instance_lock, obj, locks, conns, th, calls, last,
          coercion>>

\* No call of _to_bool is observed.
NoCoercion == [word |-> <<>>, value |-> <<>>, default |-> FALSE, result |-> "none"]

\* ----------------------------------------------------------------- helpers
Unset == -1          \* an attribute (_conn, _conn_lock) the instance does not have yet

\* The instance object.__new__ returns: it has no attribute yet.
NewObject == [_initialized |-> "unset", _properties_path |-> "unset",
              _conn |-> Unset, _conn_lock |-> Unset]

\* What a call gave its caller: t is the thread and op the call; kind is
\* "instance", "cursor", "pair" (cursor and connection), "ok" or "exc" (it
\* raised exc; keys are the property keys a ValueError names); cur is the
\* connection of the cursor, conn the connection returned or used; h0 is the
\* handle as it was when the call started, attempts the number of times the
\* call called the driver's connect.
NoRes == [t |-> None, op |-> "", kind |-> "none", conn |-> None, cur |-> None,
          mapping |-> FALSE, exc |-> "", keys |-> <<>>, h0 |-> None,
          attempts |-> 0]

\* A thread: the call it is in (op), its position (pc) and the locals of the
\* frames: self, the lock of the with block (lk), conn of get_cursor, commit
\* and rollback, conn of get_cursor_and_connection (conn0), the row argument
\* (dict), the line that receives _ensure_connection's value (ret).  h0 is
\* and attempts are history: the handle when the call started, and the calls
\* of the driver's connect made so far.
Idle == [op |-> "none", pc |-> "idle", self |-> None, lk |-> None, conn |-> None,
         conn0 |-> None, dict |-> FALSE, ret |-> "", h0 |-> None, attempts |-> 0]

\* The call returns r: the thread is between calls again.
Ret(t, r) ==
  /\ th' = [th EXCEPT ![t] = [Idle EXCEPT !.self = th[t].self]]
  /\ last' = [r EXCEPT !.t = t, !.op = th[t].op, !.h0 = th[t].h0,
                       !.attempts = th[t].attempts + r.attempts]

Raise(e) == [NoRes EXCEPT !.kind = "exc", !.exc = e]

At(t, p) == th[t].pc = p

Go(t, p) == th' = [th EXCEPT ![t].pc = p] /\ last' = NoRes

\* threading.RLock.acquire by thread t is possible (it does not block).
CanAcquire(l, t) == locks[l].owner = None \/ locks[l].owner = t

Acquire(l, t) == [locks EXCEPT ![l] = [owner |-> t, count |-> @.count + 1]]

\* threading.RLock.release by its owner.
Release(l) ==
  [locks EXCEPT ![l] = IF @.count = 1 THEN [owner |-> None, count |-> 0]
                       ELSE [@ EXCEPT !.count = @ - 1]]

\* The physical connections that are open.
OpenConns == {c \in 1..Len(conns) : conns[c].open}

\* ------------------------------------------------------- pure functions
\* Truth value of an Optional[str]: None and "" are false.
Truthy(v) == v # PyNone /\ v # <<>>

IsSpace(ch) == ch = " "

\* str.strip(): leading and trailing whitespace removed.
RECURSIVE LStrip(_)
LStrip(s) == IF s # <<>> /\ IsSpace(Head(s)) THEN LStrip(Tail(s)) ELSE s

RECURSIVE RStrip(_)
RStrip(s) ==
  IF s # <<>> /\ IsSpace(s[Len(s)]) THEN RStrip(SubSeq(s, 1, Len(s) - 1)) ELSE s

Strip(s) == RStrip(LStrip(s))

LowerChar(ch) ==
  CASE ch = "T" -> "t" [] ch = "R" -> "r" [] ch = "U" -> "u" [] ch = "E" -> "e"
    [] ch = "Y" -> "y" [] ch = "S" -> "s" [] ch = "O" -> "o" [] ch = "N" -> "n"
    [] ch = "F" -> "f" [] ch = "A" -> "a" [] ch = "L" -> "l" [] ch = "D" -> "d"
    [] ch = "I" -> "i" [] ch = "M" -> "m" [] ch = "X" -> "x" [] ch = "C" -> "c"
    [] ch = "V" -> "v" [] OTHER -> ch

\* str.lower().
Lower(s) == [i \in 1..Len(s) |-> LowerChar(s[i])]

\* SqliteDB._to_bool (db.py:276-280).
TrueWords == {<<"1">>, <<"t", "r", "u", "e">>, <<"y", "e", "s">>, <<"y">>, <<"o", "n">>}

\* (a coercion that does not strip the value)
_to_bool_NoStrip(value, default) ==
  IF value = PyNone THEN default ELSE Lower(value) \in TrueWords

_to_bool(value, default) ==
  IF value = PyNone THEN default ELSE Lower(Strip(value)) \in TrueWords

Digits == {"0", "1", "2", "3", "4", "5", "6", "7", "8", "9"}

\* int(s) returns (it raises ValueError otherwise).
IsInt(s) == LET v == Strip(s) IN v # <<>> /\ \A i \in 1..Len(v) : v[i] \in Digits

\* PostgresDB._build_conn_kwargs (db.py:41-72) on the loaded properties: the
\* exception it raises ("" when it returns) and the keys the error names.
KeyOrder == <<"db.host", "db.name", "db.user", "db.password">>

\* (a builder that stops at the first missing key)
Pg_build_conn_kwargs_FirstOnly(p) ==
  LET all == SelectSeq(KeyOrder, LAMBDA k : ~Truthy(p[k]))
  IN  IF all # <<>> THEN [exc |-> "ValueError", missing |-> <<Head(all)>>]
      ELSE [exc |-> "", missing |-> <<>>]

Pg_build_conn_kwargs(p) ==
  LET missing == SelectSeq(KeyOrder, LAMBDA k : ~Truthy(p[k]))
      port == IF p["db.port"] = PyNone THEN <<"5", "4", "3", "2">> ELSE p["db.port"]
  IN  IF missing # <<>> THEN [exc |-> "ValueError", missing |-> missing]
      ELSE IF ~IsInt(port) THEN [exc |-> "ValueError", missing |-> <<>>]
      ELSE IF p["db.connect_timeout"] # PyNone /\ ~IsInt(p["db.connect_timeout"])
           THEN [exc |-> "ValueError", missing |-> <<>>]
      ELSE [exc |-> "", missing |-> <<>>]

\* (an isolation level that is passed on as the file gives it)
SqIsolation_NotNormalized(p) == p["db.isolation_level"]

\* Lines 202-204: iso, normalized: None (autocommit) when the key is absent
\* or the value is empty or whitespace.
SqIsolation(p) ==
  LET iso == p["db.isolation_level"]
  IN  IF iso # PyNone /\ Strip(iso) = <<>> THEN PyNone ELSE iso

\* (a builder whose check_same_thread defaults to false)
Sq_build_conn_kwargs_DefaultFalse(p) ==
  IF ~Truthy(p["db.path"])
  THEN [exc |-> "ValueError", check_same_thread |-> TRUE,
        isolation_level |-> PyNone]
  ELSE [exc |-> "",
        check_same_thread |-> _to_bool(p["db.check_same_thread"], FALSE),
        isolation_level |-> SqIsolation(p)]

\* SqliteDB._build_conn_kwargs (db.py:180-212) on the loaded properties.
Sq_build_conn_kwargs(p) ==
  IF ~Truthy(p["db.path"])
  THEN [exc |-> "ValueError", check_same_thread |-> TRUE,
        isolation_level |-> PyNone]
  ELSE [exc |-> "",
        check_same_thread |-> _to_bool(p["db.check_same_thread"], TRUE),
        isolation_level |-> SqIsolation(p)]

\* SqliteDB._apply_pragmas (db.py:218-226) executes a PRAGMA statement.
HasPragmas(p) == Truthy(p["db.journal_mode"]) \/ p["db.foreign_keys"] # PyNone

\* ----------------------------------------------------------- the drivers
\* sqlite3: what using connection c from thread t raises ("" when nothing):
\* the thread check of check_same_thread, then the closed check.
Sq_use(c, t) ==
  IF conns[c].check_same_thread /\ conns[c].thread # t THEN "ProgrammingError"
  ELSE IF ~conns[c].open THEN "ProgrammingError"
  ELSE ""

\* sqlite3: Connection.close() checks the thread only; closing twice is allowed.
Sq_close(c, t) ==
  IF conns[c].check_same_thread /\ conns[c].thread # t THEN "ProgrammingError" ELSE ""

\* sqlite3.connect(isolation_level = iso) accepts None and the level names
\* in any letter case (and ""), and raises ValueError for any other string.
SqLevels == {<<>>, <<"D", "E", "F", "E", "R", "R", "E", "D">>,
             <<"I", "M", "M", "E", "D", "I", "A", "T", "E">>,
             <<"E", "X", "C", "L", "U", "S", "I", "V", "E">>}

Sq_accepts(iso) == iso = PyNone \/ Lower(iso) \in {Lower(l) : l \in SqLevels}

\* psycopg2: a closed connection raises InterfaceError; threads may share it.
\* (mutant) the driver hands out cursors of a closed connection.
Pg_use_Unchecked(c, t) == ""

Pg_use(c, t) == IF ~conns[c].open THEN "InterfaceError" ELSE ""

Use(c, t) ==
  IF c = None THEN "AttributeError"
  ELSE IF cls = "SqliteDB" THEN Sq_use(c, t) ELSE Pg_use(c, t)

\* A call starts while the budget of the run lasts.
CanCall(t) == th[t].pc = "idle" /\ calls < MaxCalls

\* ------------------------------------------------- __new__ (db.py:162-169)
\* The constructor call cls(): line 164, the check outside the lock.
New_check(t) ==
  /\ CanCall(t)
  /\ calls' = calls + 1
  /\ th' = [th EXCEPT ![t] = [@ EXCEPT !.op = "ctor",
                                       !.pc = IF _instance = None THEN "new_lock"
                                                                  ELSE "new_return"]]
  /\ UNCHANGED <<coercion, cls, props, _instance, _instance_lock, obj, locks, conns>>
  /\ last' = NoRes

\* Line 165: with cls._instance_lock (a plain Lock: it blocks while held).
New_lock(t) ==
  /\ At(t, "new_lock")
  /\ _instance_lock = None
  /\ _instance_lock' = t
  /\ Go(t, "new_recheck")
  /\ UNCHANGED <<coercion, cls, props, _instance, obj, locks, conns, calls>>

\* (mutant) no second check inside the lock.
New_recheck_NoCheck(t) ==
  /\ At(t, "new_recheck")
  /\ obj' = Append(obj, NewObject)
  /\ _instance' = Len(obj) + 1
  /\ Go(t, "new_flag")
  /\ UNCHANGED <<coercion, cls, props, _instance_lock, locks, conns, calls>>

\* Lines 166-167: the check inside the lock, and the allocation.
New_recheck(t) ==
  /\ At(t, "new_recheck")
  /\ IF _instance = None
       THEN /\ obj' = Append(obj, NewObject)
            /\ _instance' = Len(obj) + 1
            /\ Go(t, "new_flag")
            /\ UNCHANGED _instance_lock
       ELSE /\ _instance_lock' = None
            /\ Go(t, "new_return")
            /\ UNCHANGED <<obj, _instance>>
  /\ UNCHANGED <<coercion, cls, props, locks, conns, calls>>

\* Line 168: cls._instance._initialized = False, then the lock is released.
New_flag(t) ==
  /\ At(t, "new_flag")
  /\ obj' = [obj EXCEPT ![_instance]._initialized = "False"]
  /\ _instance_lock' = None
  /\ Go(t, "new_return")
  /\ UNCHANGED <<coercion, cls, props, _instance, locks, conns, calls>>

\* Line 169: return cls._instance; Python then calls __init__ on it.
New_return(t) ==
  /\ At(t, "new_return")
  /\ th' = [th EXCEPT ![t] = [@ EXCEPT !.self = _instance, !.pc = "init_check"]]
  /\ UNCHANGED <<coercion, cls, props, _instance, _instance_lock, obj, locks, conns, calls>>
  /\ last' = NoRes

\* ------------------------------------------------ __init__ (db.py:171-178)
\* The result of a constructor call: the instance.
Instance(i) == [NoRes EXCEPT !.kind = "instance"]

\* Lines 172-175: getattr(self, "_initialized", False); the body starts with
\* the properties path.
Init_check(t) ==
  /\ At(t, "init_check")
  /\ IF obj[th[t].self]._initialized = "True"
       THEN /\ Ret(t, Instance(th[t].self))
            /\ UNCHANGED obj
       ELSE /\ obj' = [obj EXCEPT ![th[t].self]._properties_path = DefaultPath]
            /\ Go(t, "init_conn")
  /\ UNCHANGED <<coercion, cls, props, _instance, _instance_lock, locks, conns, calls>>

\* Line 176: self._conn = None.
Init_conn(t) ==
  /\ At(t, "init_conn")
  /\ obj' = [obj EXCEPT ![th[t].self]._conn = None]
  /\ Go(t, "init_lock")
  /\ UNCHANGED <<coercion, cls, props, _instance, _instance_lock, locks, conns, calls>>

\* Line 177: self._conn_lock = threading.RLock(), a new lock object.
Init_lock(t) ==
  /\ At(t, "init_lock")
  /\ locks' = Append(locks, [owner |-> None, count |-> 0])
  /\ obj' = [obj EXCEPT ![th[t].self]._conn_lock = Len(locks) + 1]
  /\ Go(t, "init_flag")
  /\ UNCHANGED <<coercion, cls, props, _instance, _instance_lock, conns, calls>>

\* Line 178: self._initialized = True; the constructor call returns.
Init_flag(t) ==
  /\ At(t, "init_flag")
  /\ obj' = [obj EXCEPT ![th[t].self]._initialized = "True"]
  /\ Ret(t, Instance(th[t].self))
  /\ UNCHANGED <<coercion, cls, props, _instance, _instance_lock, locks, conns, calls>>

Constructor(t) ==
  \/ New_check(t) \/ New_lock(t) \/ New_recheck(t) \/ New_flag(t) \/ New_return(t)
  \/ Init_check(t) \/ Init_conn(t) \/ Init_lock(t) \/ Init_flag(t)

\* ------------------------------------------------------ the public calls
HasManager(t) == CanCall(t) /\ th[t].self # None

\* A call that starts with conn = self._ensure_connection(); `ret` names the
\* line that receives the connection.
Start(t, o, d, ret) ==
  /\ HasManager(t)
  /\ calls' = calls + 1
  /\ th' = [th EXCEPT ![t] = [@ EXCEPT !.op = o, !.dict = d, !.ret = ret,
                                       !.pc = "ens_read",
                                       !.h0 = obj[th[t].self]._conn]]
  /\ UNCHANGED <<coercion, cls, props, _instance, _instance_lock, obj, locks, conns>>
  /\ last' = NoRes

\* get_cursor (db.py:86, db.py:241), called by the user.
Get_cursor_call(t) == \E d \in BOOLEAN : Start(t, "get_cursor", d, "cursor")

\* get_cursor_and_connection (db.py:99-103, db.py:251-255): its own
\* conn = self._ensure_connection().
Get_cursor_and_connection_call(t) ==
  \E d \in BOOLEAN : Start(t, "get_cursor_and_connection", d, "pair")

\* commit (db.py:107-108, db.py:259-260).
Commit_call(t) == Start(t, "commit", FALSE, "commit")

\* rollback (db.py:111-112, db.py:263-264).
Rollback_call(t) == Start(t, "rollback", FALSE, "rollback")

\* close (db.py:115, db.py:267).
Close_call(t) ==
  /\ HasManager(t)
  /\ calls' = calls + 1
  /\ th' = [th EXCEPT ![t] = [@ EXCEPT !.op = "close", !.pc = "close_read",
                                       !.h0 = obj[th[t].self]._conn]]
  /\ UNCHANGED <<coercion, cls, props, _instance, _instance_lock, obj, locks, conns>>
  /\ last' = NoRes

\* -------------------------- _ensure_connection (db.py:74-84, db.py:230-239)
\* `with self._conn_lock:` evaluates the attribute ...
With_lock_read(t) ==
  /\ th[t].pc \in {"ens_read", "close_read"}
  /\ LET l == obj[th[t].self]._conn_lock IN
       IF l = Unset THEN Ret(t, Raise("AttributeError"))
       ELSE /\ th' = [th EXCEPT ![t] = [@ EXCEPT !.lk = l,
                       !.pc = IF th[t].pc = "ens_read" THEN "ens_lock" ELSE "close_lock"]]
            /\ last' = NoRes
  /\ UNCHANGED <<coercion, cls, props, _instance, _instance_lock, obj, locks, conns, calls>>

\* (mutant) the with block is entered without waiting for the owner.
With_lock_acquire_NoWait(t) ==
  /\ th[t].pc \in {"ens_lock", "close_lock"}
  /\ locks' = Acquire(th[t].lk, t)
  /\ Go(t, IF th[t].pc = "ens_lock" THEN "ens_check" ELSE "close_check")
  /\ UNCHANGED <<coercion, cls, props, _instance, _instance_lock, obj, conns, calls>>

\* ... and acquires that RLock: the thread waits while another thread owns it.
With_lock_acquire(t) ==
  /\ th[t].pc \in {"ens_lock", "close_lock"}
  /\ CanAcquire(th[t].lk, t)
  /\ locks' = Acquire(th[t].lk, t)
  /\ Go(t, IF th[t].pc = "ens_lock" THEN "ens_check" ELSE "close_check")
  /\ UNCHANGED <<coercion, cls, props, _instance, _instance_lock, obj, conns, calls>>

\* (mutant) the exception leaves the lock held.
RaiseLocked_NoRelease(t, e) ==
  /\ UNCHANGED locks
  /\ Ret(t, e)

\* An exception leaves the with block: the lock is released, the call raises.
RaiseLocked(t, e) ==
  /\ locks' = Release(th[t].lk)
  /\ Ret(t, e)

\* The outcomes of self._build_conn_kwargs(): reading the file raises (the
\* loader, or creating the directory of db.path), or the builder runs on the
\* loaded properties and raises ValueError or returns the descriptor ("").
BuildResult(r, keys) ==
  IF r.exc = "" THEN NoRes
  ELSE [NoRes EXCEPT !.kind = "exc", !.exc = r.exc, !.keys = keys]

BuildOutcomes ==
  {Raise("FileNotFoundError"),
   IF cls = "SqliteDB"
   THEN BuildResult(Sq_build_conn_kwargs(props), <<"db.path">>)
   ELSE BuildResult(Pg_build_conn_kwargs(props), Pg_build_conn_kwargs(props).missing)}

\* SqliteDB._ensure_connection lines 235-236: the handle is checked and, when
\* it is None, the descriptor is built.
Sq_ensure_check(t) ==
  /\ cls = "SqliteDB"
  /\ At(t, "ens_check")
  /\ IF obj[th[t].self]._conn = None
       THEN \E e \in BuildOutcomes :
              IF e.kind = "exc" THEN RaiseLocked(t, e)
              ELSE Go(t, "ens_connect") /\ UNCHANGED locks
       ELSE Go(t, "ens_return") /\ UNCHANGED locks
  /\ UNCHANGED <<coercion, cls, props, _instance, _instance_lock, obj, conns, calls>>

\* (mutant) the liveness check is missing: only None reconnects.
Pg_ensure_check_NoneOnly(t) ==
  /\ cls = "PostgresDB"
  /\ At(t, "ens_check")
  /\ IF obj[th[t].self]._conn = None
       THEN \E e \in BuildOutcomes :
              IF e.kind = "exc" THEN RaiseLocked(t, e)
              ELSE Go(t, "ens_connect") /\ UNCHANGED locks
       ELSE Go(t, "ens_return") /\ UNCHANGED locks
  /\ UNCHANGED <<coercion, cls, props, _instance, _instance_lock, obj, conns, calls>>

\* PostgresDB._ensure_connection lines 79-80: None, or found closed.
Pg_ensure_check(t) ==
  /\ cls = "PostgresDB"
  /\ At(t, "ens_check")
  /\ LET c == obj[th[t].self]._conn IN
       IF c = None \/ ~conns[c].open
       THEN \E e \in BuildOutcomes :
              IF e.kind = "exc" THEN RaiseLocked(t, e)
              ELSE Go(t, "ens_connect") /\ UNCHANGED locks
       ELSE Go(t, "ens_return") /\ UNCHANGED locks
  /\ UNCHANGED <<coercion, cls, props, _instance, _instance_lock, obj, conns, calls>>

\* The connection object a successful connect returns: isolation_level is
\* None in autocommit mode; issued says that a cursor of it was handed out
\* (sqlite3 only: the callers' statements are modelled for SqliteDB); stmts
\* counts the statements executed on it, pending are the statements of
\* its open transaction and visible the effects a second connection sees.
NoEffects == [DML |-> 0, DDL |-> 0]

NewConn(t, cst, iso) ==
  [open |-> TRUE, thread |-> t, check_same_thread |-> cst, tuned |-> FALSE,
   row_factory |-> FALSE, closes |-> 0, isolation_level |-> iso,
   issued |-> FALSE, stmts |-> 0, pending |-> <<>>, visible |-> NoEffects]

\* The driver's connect raised: one attempt, and the error of the call.
ConnectFailed == [Raise("OperationalError") EXCEPT !.attempts = 1]

\* The driver's connect returned: one attempt, and the call goes on at p.
Connected(t, p) ==
  /\ th' = [th EXCEPT ![t] = [@ EXCEPT !.pc = p, !.attempts = @ + 1]]
  /\ last' = NoRes

\* (mutant) a failed connect is tried again inside the call.
Sq_ensure_connect_Retry(t) ==
  /\ cls = "SqliteDB"
  /\ At(t, "ens_connect")
  /\ \/ /\ th[t].attempts < 2
        /\ Connected(t, "ens_connect")
        /\ UNCHANGED <<obj, conns, locks>>
     \/ /\ Len(conns) < MaxConns
        /\ conns' = Append(conns,
                       NewConn(t, Sq_build_conn_kwargs(props).check_same_thread,
                               Sq_build_conn_kwargs(props).isolation_level))
        /\ obj' = [obj EXCEPT ![th[t].self]._conn = Len(conns) + 1]
        /\ Connected(t, "ens_pragmas")
        /\ UNCHANGED locks
  /\ UNCHANGED <<coercion, cls, props, _instance, _instance_lock, calls>>

\* SqliteDB._ensure_connection line 237: self._conn = sqlite3.connect(...);
\* the driver raises, or the new connection is stored in the handle.
Sq_ensure_connect(t) ==
  /\ cls = "SqliteDB"
  /\ At(t, "ens_connect")
  /\ \/ /\ Sq_accepts(Sq_build_conn_kwargs(props).isolation_level)
        /\ RaiseLocked(t, ConnectFailed)
        /\ UNCHANGED <<obj, conns>>
     \/ /\ ~Sq_accepts(Sq_build_conn_kwargs(props).isolation_level)
        /\ RaiseLocked(t, [ConnectFailed EXCEPT !.exc = "ValueError"])
        /\ UNCHANGED <<obj, conns>>
     \/ /\ Sq_accepts(Sq_build_conn_kwargs(props).isolation_level)
        /\ Len(conns) < MaxConns
        /\ conns' = Append(conns,
                       NewConn(t, Sq_build_conn_kwargs(props).check_same_thread,
                               Sq_build_conn_kwargs(props).isolation_level))
        /\ obj' = [obj EXCEPT ![th[t].self]._conn = Len(conns) + 1]
        /\ Connected(t, "ens_pragmas")
        /\ UNCHANGED locks
  /\ UNCHANGED <<coercion, cls, props, _instance, _instance_lock, calls>>

\* PostgresDB._ensure_connection line 81: self._conn = psycopg2.connect(...).
Pg_ensure_connect(t) ==
  /\ cls = "PostgresDB"
  /\ At(t, "ens_connect")
  /\ \/ /\ RaiseLocked(t, ConnectFailed)
        /\ UNCHANGED <<obj, conns>>
     \/ /\ Len(conns) < MaxConns
        /\ conns' = Append(conns, NewConn(t, FALSE, PyNone))
        /\ obj' = [obj EXCEPT ![th[t].self]._conn = Len(conns) + 1]
        /\ Connected(t, "ens_return")
        /\ UNCHANGED locks
  /\ UNCHANGED <<coercion, cls, props, _instance, _instance_lock, calls>>

\* SqliteDB._ensure_connection line 238: self._apply_pragmas(self._conn, props)
\* (db.py:214-228): a cursor of the connection executes the PRAGMAs, which
\* raises or tunes the connection; the handle keeps the connection either way.
Sq_apply_pragmas(t) ==
  /\ cls = "SqliteDB"
  /\ At(t, "ens_pragmas")
  /\ LET c == obj[th[t].self]._conn IN
       IF Use(c, t) # ""
       THEN RaiseLocked(t, Raise(Use(c, t))) /\ UNCHANGED conns
       ELSE \/ /\ HasPragmas(props)
               /\ RaiseLocked(t, Raise("OperationalError"))
               /\ UNCHANGED conns
            \/ /\ conns' = [conns EXCEPT ![c].tuned = TRUE]
               /\ Go(t, "ens_return")
               /\ UNCHANGED locks
  /\ UNCHANGED <<coercion, cls, props, _instance, _instance_lock, obj, calls>>

\* return self._conn (db.py:84, db.py:239): the handle is read again, the lock
\* is released and the caller's line receives the connection.
Ensure_return(t) ==
  /\ At(t, "ens_return")
  /\ locks' = Release(th[t].lk)
  /\ LET c == obj[th[t].self]._conn
         r == th[t].ret
     IN  th' = [th EXCEPT ![t] = [@ EXCEPT
                  !.lk = None,
                  !.conn0 = IF r = "pair" THEN c ELSE @,
                  !.conn = IF r = "pair" THEN @ ELSE c,
                  !.ret = IF r = "pair" THEN "cursor" ELSE @,
                  !.pc = IF r = "pair" THEN "ens_read"
                         ELSE IF r = "cursor"
                              THEN (IF cls = "SqliteDB" /\ th[t].dict
                                    THEN "row_factory" ELSE "cursor")
                         ELSE r]]
  /\ UNCHANGED <<coercion, cls, props, _instance, _instance_lock, obj, conns, calls>>
  /\ last' = NoRes

\* ------------------------------------- get_cursor (db.py:86-97, 241-249)
\* SqliteDB.get_cursor lines 247-248: conn.row_factory = sqlite3.Row, an
\* attribute of the shared connection object.
Sq_row_factory(t) ==
  /\ cls = "SqliteDB"
  /\ At(t, "row_factory")
  /\ IF th[t].conn = None
       THEN Ret(t, Raise("AttributeError")) /\ UNCHANGED conns
       ELSE /\ conns' = [conns EXCEPT ![th[t].conn].row_factory = TRUE]
            /\ Go(t, "cursor")
  /\ UNCHANGED <<coercion, cls, props, _instance, _instance_lock, obj, locks, calls>>

\* What the call returns once conn.cursor() returned: the cursor, or for
\* get_cursor_and_connection (db.py:105, db.py:257) the pair (cur, conn).
CursorResult(t, mapping) ==
  IF th[t].op = "get_cursor_and_connection"
  THEN [NoRes EXCEPT !.kind = "pair", !.cur = th[t].conn, !.conn = th[t].conn0,
                     !.mapping = mapping]
  ELSE [NoRes EXCEPT !.kind = "cursor", !.cur = th[t].conn, !.mapping = mapping]

\* The rows a cursor produces: tuples by default; sqlite3.Row when the
\* connection's row factory is set (db.py:247-248); psycopg2's RealDictRow,
\* a dict keyed by column name, for a RealDictCursor (db.py:94-95).
RowType(mapping) ==
  IF ~mapping THEN "tuple"
  ELSE IF cls = "SqliteDB" THEN "sqlite3.Row" ELSE "RealDictRow"

\* row["name"] works for sqlite3.Row and for a dict; row[0] works for a
\* tuple and for sqlite3.Row, and raises KeyError for a RealDictRow.
ByName(rows) == rows \in {"sqlite3.Row", "RealDictRow"}

ByPosition(rows) == rows \in {"tuple", "sqlite3.Row"}

\* SqliteDB.get_cursor line 249: conn.cursor(); the cursor takes the row
\* factory the connection has at this moment.
Sq_cursor(t) ==
  /\ cls = "SqliteDB"
  /\ At(t, "cursor")
  /\ IF Use(th[t].conn, t) # ""
       THEN Ret(t, Raise(Use(th[t].conn, t))) /\ UNCHANGED conns
       ELSE /\ Ret(t, CursorResult(t, conns[th[t].conn].row_factory))
            /\ conns' = [conns EXCEPT ![th[t].conn].issued = TRUE]
  /\ UNCHANGED <<coercion, cls, props, _instance, _instance_lock, obj, locks, calls>>

\* PostgresDB.get_cursor lines 93-97: conn.cursor(cursor_factory=RealDictCursor)
\* or conn.cursor().
Pg_cursor(t) ==
  /\ cls = "PostgresDB"
  /\ At(t, "cursor")
  /\ IF Use(th[t].conn, t) # ""
       THEN Ret(t, Raise(Use(th[t].conn, t))) /\ UNCHANGED conns
       ELSE /\ Ret(t, CursorResult(t, th[t].dict))
            /\ UNCHANGED conns
  /\ UNCHANGED <<coercion, cls, props, _instance, _instance_lock, obj, locks, calls>>

\* ----------------------------- commit, rollback (db.py:107-113, 259-265)
Done == [NoRes EXCEPT !.kind = "ok"]

\* The statements of kind k in a transaction.
Count(stmts, k) == Cardinality({i \in 1..Len(stmts) : stmts[i] = k})

\* The driver's commit on connection record c: the effects of the open
\* transaction become visible to other connections.
Committed(c) ==
  [c EXCEPT !.pending = <<>>,
            !.visible = [k \in {"DML", "DDL"} |-> @[k] + Count(c.pending, k)]]

\* conn.commit() (db.py:109, db.py:261).
Commit(t) ==
  /\ At(t, "commit")
  /\ IF Use(th[t].conn, t) # ""
       THEN Ret(t, Raise(Use(th[t].conn, t))) /\ UNCHANGED conns
       ELSE /\ Ret(t, [Done EXCEPT !.conn = th[t].conn])
            /\ conns' = [conns EXCEPT ![th[t].conn] = Committed(@)]
  /\ UNCHANGED <<coercion, cls, props, _instance, _instance_lock, obj, locks, calls>>

\* conn.rollback() (db.py:113, db.py:265).
Rollback(t) ==
  /\ At(t, "rollback")
  /\ IF Use(th[t].conn, t) # ""
       THEN Ret(t, Raise(Use(th[t].conn, t))) /\ UNCHANGED conns
       ELSE /\ Ret(t, [Done EXCEPT !.conn = th[t].conn])
            /\ conns' = [conns EXCEPT ![th[t].conn].pending = <<>>]
  /\ UNCHANGED <<coercion, cls, props, _instance, _instance_lock, obj, locks, calls>>

\* ------------------------------------------ close (db.py:115-122, 267-274)
\* The driver's Connection.close() on connection c; the open transaction is
\* rolled back.
Closed(c) ==
  [conns EXCEPT ![c] = [@ EXCEPT !.open = FALSE, !.closes = @ + 1,
                                 !.pending = <<>>]]

\* SqliteDB.close lines 272-273: if self._conn is not None: self._conn.close().
Sq_close_conn(t) ==
  /\ cls = "SqliteDB"
  /\ At(t, "close_check")
  /\ LET c == obj[th[t].self]._conn IN
       IF c = None THEN Go(t, "close_clear") /\ UNCHANGED <<conns, locks>>
       ELSE IF Sq_close(c, t) # ""
            THEN RaiseLocked(t, Raise(Sq_close(c, t))) /\ UNCHANGED conns
       ELSE /\ conns' = Closed(c)
            /\ Go(t, "close_clear")
            /\ UNCHANGED locks
  /\ UNCHANGED <<coercion, cls, props, _instance, _instance_lock, obj, calls>>

\* PostgresDB.close lines 120-121: closed only when it is still open.
Pg_close_conn(t) ==
  /\ cls = "PostgresDB"
  /\ At(t, "close_check")
  /\ LET c == obj[th[t].self]._conn IN
       IF c # None /\ conns[c].open
       THEN conns' = Closed(c)
       ELSE UNCHANGED conns
  /\ Go(t, "close_clear")
  /\ UNCHANGED <<coercion, cls, props, _instance, _instance_lock, obj, locks, calls>>

\* (mutant) close() leaves the closed connection in the handle.
Close_clear_KeepHandle(t) ==
  /\ At(t, "close_clear")
  /\ locks' = Release(th[t].lk)
  /\ Ret(t, Done)
  /\ UNCHANGED <<coercion, cls, props, _instance, _instance_lock, obj, conns, calls>>

\* self._conn = None (db.py:122, db.py:274); the lock is released.
Close_clear(t) ==
  /\ At(t, "close_clear")
  /\ obj' = [obj EXCEPT ![th[t].self]._conn = None]
  /\ locks' = Release(th[t].lk)
  /\ Ret(t, Done)
  /\ UNCHANGED <<coercion, cls, props, _instance, _instance_lock, conns, calls>>

\* ------------------------------------------------------- the environment
\* The server drops a connection: psycopg2 reports it closed (conn.closed # 0,
\* the liveness check of db.py:79).
Server_drop ==
  /\ cls = "PostgresDB"
  /\ \E c \in OpenConns : conns' = [conns EXCEPT ![c].open = FALSE]
  /\ UNCHANGED <<coercion, cls, props, _instance, _instance_lock, obj, locks, th, calls>>
  /\ last' = NoRes

\* ------------------------------------------------------ configurations
SqValid == [NoProps EXCEPT !["db.path"] = Str1("p"),
                           !["db.journal_mode"] = Str3("W", "A", "L")]

PgValid == [k \in Keys |-> IF k \in RequiredKeys THEN Str1("v") ELSE PyNone]

\* The property files of the runs: valid ones (check_same_thread is true by
\* default), and one that misses required keys.
Configs(c) ==
  IF c = "SqliteDB"
  THEN {SqValid,
        [SqValid EXCEPT !["db.check_same_thread"] = Str5("f", "a", "l", "s", "e")],
        NoProps}
  ELSE {PgValid, [PgValid EXCEPT !["db.host"] = PyNone, !["db.user"] = <<>>]}

\* ------------------------------------------------------ the specifications
\* The manager as one constructor call leaves it (lines 36-39 ran once).
Constructed == [_initialized |-> "True", _properties_path |-> DefaultPath,
                _conn |-> None, _conn_lock |-> 1]

\* A process that has not constructed the manager yet.
Init ==
  /\ cls \in Classes
  /\ props \in Configs(cls)
  /\ _instance = None
  /\ _instance_lock = None
  /\ obj = <<>>
  /\ locks = <<>>
  /\ conns = <<>>
  /\ th = [t \in Threads |-> Idle]
  /\ calls = 0
  /\ last = NoRes
  /\ coercion = NoCoercion

Operation(t) ==
  \/ Get_cursor_call(t) \/ Get_cursor_and_connection_call(t)
  \/ Commit_call(t) \/ Rollback_call(t) \/ Close_call(t)
  \/ With_lock_read(t) \/ With_lock_acquire(t)
  \/ Sq_ensure_check(t) \/ Sq_ensure_connect(t) \/ Sq_apply_pragmas(t)
  \/ Pg_ensure_check(t) \/ Pg_ensure_connect(t)
  \/ Ensure_return(t)
  \/ Sq_row_factory(t) \/ Sq_cursor(t) \/ Pg_cursor(t)
  \/ Commit(t) \/ Rollback(t)
  \/ Sq_close_conn(t) \/ Pg_close_conn(t) \/ Close_clear(t)

Next == (\E t \in Threads : Constructor(t) \/ Operation(t)) \/ Server_drop

Spec == Init /\ [][Next]_vars

\* Concurrent constructor calls only.
NextCtor == \E t \in Threads : Constructor(t)

SpecCtor == Init /\ [][NextCtor]_vars

\* A process whose manager was constructed by one thread before the threads
\* that share it started (as the module-level SqliteDB() of dbtest.py:14).
InitConstructed ==
  /\ cls \in Classes
  /\ props \in Configs(cls)
  /\ _instance = 1
  /\ _instance_lock = None
  /\ obj = <<Constructed>>
  /\ locks = <<[owner |-> None, count |-> 0]>>
  /\ conns = <<>>
  /\ th = [t \in Threads |-> [Idle EXCEPT !.self = 1]]
  /\ calls = 0
  /\ last = NoRes
  /\ coercion = NoCoercion

\* Concurrent operations on the constructed manager, and the server.
NextOps == (\E t \in Threads : Operation(t)) \/ Server_drop

SpecOps == InitConstructed /\ [][NextOps]_vars

\* The scheduler lets every thread that can take a step take one eventually
\* (the interpreter switches threads at intervals); each thread makes
\* finitely many calls (MaxCalls).
FairOps == SpecOps /\ \A t \in Threads : WF_vars(Operation(t))

\* Concurrent get_cursor calls on the constructed manager, nothing else.
GetCursor(t) ==
  \/ Get_cursor_call(t)
  \/ With_lock_read(t) \/ With_lock_acquire(t)
  \/ Sq_ensure_check(t) \/ Sq_ensure_connect(t) \/ Sq_apply_pragmas(t)
  \/ Pg_ensure_check(t) \/ Pg_ensure_connect(t)
  \/ Ensure_return(t)
  \/ Sq_row_factory(t) \/ Sq_cursor(t) \/ Pg_cursor(t)

NextGet == \E t \in Threads : GetCursor(t)

SpecGet == InitConstructed /\ [][NextGet]_vars

\* Calls that do not overlap: a thread takes a step while every other thread
\* is between calls, and the server drops connections between calls.
Alone(t) == \A u \in Threads \ {t} : th[u].pc = "idle"

NextSeq ==
  \/ \E t \in Threads : Alone(t) /\ Operation(t)
  \/ (\A t \in Threads : th[t].pc = "idle") /\ Server_drop

SpecSeq == InitConstructed /\ [][NextSeq]_vars

\* The PostgresDB manager over every property file that has each required
\* key absent (props.get returns None), empty ("key=") or set.
KeyValues == {PyNone, <<>>, Str1("v")}

PgConfigs ==
  {[k \in Keys |-> IF k \in RequiredKeys THEN f[k] ELSE PyNone] :
     f \in [RequiredKeys -> KeyValues]}

InitKw ==
  /\ cls = "PostgresDB"
  /\ props \in PgConfigs
  /\ _instance = 1
  /\ _instance_lock = None
  /\ obj = <<Constructed>>
  /\ locks = <<[owner |-> None, count |-> 0]>>
  /\ conns = <<>>
  /\ th = [t \in Threads |-> [Idle EXCEPT !.self = 1]]
  /\ calls = 0
  /\ last = NoRes
  /\ coercion = NoCoercion

\* The operations of PostgresDB (db.py:74-122).
PgOperation(t) ==
  \/ Get_cursor_call(t) \/ Get_cursor_and_connection_call(t)
  \/ Commit_call(t) \/ Rollback_call(t) \/ Close_call(t)
  \/ With_lock_read(t) \/ With_lock_acquire(t)
  \/ Pg_ensure_check(t) \/ Pg_ensure_connect(t)
  \/ Ensure_return(t)
  \/ Pg_cursor(t)
  \/ Commit(t) \/ Rollback(t)
  \/ Pg_close_conn(t) \/ Close_clear(t)

\* Calls that do not overlap, as in NextSeq.
NextKw ==
  \/ \E t \in Threads : Alone(t) /\ PgOperation(t)
  \/ (\A t \in Threads : th[t].pc = "idle") /\ Server_drop

SpecKw == InitKw /\ [][NextKw]_vars

\* The steps of the operations of SqliteDB (db.py:230-274).
SqOperation(t) ==
  \/ Get_cursor_call(t) \/ Get_cursor_and_connection_call(t)
  \/ Commit_call(t) \/ Rollback_call(t) \/ Close_call(t)
  \/ With_lock_read(t) \/ With_lock_acquire(t)
  \/ Sq_ensure_check(t) \/ Sq_ensure_connect(t) \/ Sq_apply_pragmas(t)
  \/ Ensure_return(t)
  \/ Sq_row_factory(t) \/ Sq_cursor(t)
  \/ Commit(t) \/ Rollback(t)
  \/ Sq_close_conn(t) \/ Close_clear(t)

\* Concurrent get_cursor and close calls on the constructed manager, and the
\* server.
GetCursorOrClose(t) ==
  \/ GetCursor(t)
  \/ Close_call(t) \/ Sq_close_conn(t) \/ Pg_close_conn(t) \/ Close_clear(t)

NextRace == (\E t \in Threads : GetCursorOrClose(t)) \/ Server_drop

SpecRace == InitConstructed /\ [][NextRace]_vars

\* _to_bool (db.py:276-280) applied to the values a property file can give
\* for a boolean key, in every letter case and with surrounding whitespace,
\* and to the absent value, with both defaults.
UpperChar(ch) ==
  CASE ch = "y" -> "Y" [] ch = "e" -> "E" [] ch = "s" -> "S" [] ch = "o" -> "O"
    [] ch = "n" -> "N" [] ch = "f" -> "F" [] ch = "a" -> "A" [] ch = "l" -> "L"
    [] OTHER -> ch

BoolWords == {<<"y", "e", "s">>, <<"o", "n">>, <<"1">>,
              <<"0">>, <<"f", "a", "l", "s", "e">>, <<>>}

LetterCases(w) ==
  {[i \in 1..Len(w) |-> IF i \in S THEN UpperChar(w[i]) ELSE w[i]] :
     S \in SUBSET (1..Len(w))}

Padded(v) == {v, <<" ">> \o v, v \o <<" ">>, <<" ">> \o v \o <<" ">>}

BoolInputs ==
  {[word |-> PyNone, value |-> PyNone]} \cup
  UNION {UNION {{[word |-> w, value |-> p] : p \in Padded(v)} :
                  v \in LetterCases(w)} : w \in BoolWords}

InitBool ==
  /\ cls = "SqliteDB"
  /\ props = SqValid
  /\ _instance = 1
  /\ _instance_lock = None
  /\ obj = <<Constructed>>
  /\ locks = <<[owner |-> None, count |-> 0]>>
  /\ conns = <<>>
  /\ th = [t \in Threads |-> [Idle EXCEPT !.self = 1]]
  /\ calls = 0
  /\ last = NoRes
  /\ \E i \in BoolInputs, d \in BOOLEAN :
       coercion = [word |-> i.word, value |-> i.value, default |-> d,
                   result |-> "none"]

\* The call _to_bool(value, default) returns.
To_bool_call ==
  /\ coercion.result = "none"
  /\ coercion' = [coercion EXCEPT !.result =
                     IF _to_bool(coercion.value, coercion.default)
                     THEN "True" ELSE "False"]
  /\ UNCHANGED <<cls, props, _instance, _instance_lock, obj, locks, conns, th,
                 calls, last>>

SpecBool == InitBool /\ [][To_bool_call]_vars

\* Concurrent get_cursor, commit and rollback calls on the constructed
\* manager, and the server: the calls of one _ensure_connection each.
EnsureOperation(t) ==
  \/ GetCursor(t)
  \/ Commit_call(t) \/ Rollback_call(t) \/ Commit(t) \/ Rollback(t)

NextEnsure == (\E t \in Threads : EnsureOperation(t)) \/ Server_drop

SpecEnsure == InitConstructed /\ [][NextEnsure]_vars

\* The caller executes a statement through a cursor of connection c it was
\* given (dbtest.py:17): in autocommit mode the statement is committed at
\* once; otherwise sqlite3 opens a transaction before a data-modifying
\* statement (INSERT, UPDATE, DELETE, REPLACE), while another statement
\* (such as CREATE TABLE) joins the open transaction or, when none is open,
\* is committed at once.
Executed(c, k) ==
  IF c.isolation_level = PyNone \/ (k = "DDL" /\ c.pending = <<>>)
  THEN [c EXCEPT !.stmts = @ + 1, !.visible[k] = @ + 1]
  ELSE [c EXCEPT !.stmts = @ + 1, !.pending = Append(@, k)]

Execute(t) ==
  /\ th[t].pc = "idle"
  /\ \E c \in 1..Len(conns), k \in {"DML", "DDL"} :
       /\ conns[c].issued
       /\ conns[c].stmts < MaxStmts
       /\ Sq_use(c, t) = ""
       /\ conns' = [conns EXCEPT ![c] = Executed(@, k)]
  /\ last' = NoRes
  /\ UNCHANGED <<coercion, cls, props, _instance, _instance_lock, obj, locks, th, calls>>

\* The property files of SqliteDB with db.isolation_level absent, empty,
\* whitespace, a level of sqlite3 in two letter cases and another string.
IsolationValues ==
  {PyNone, <<>>, <<" ">>, <<"D", "E", "F", "E", "R", "R", "E", "D">>,
   <<"d", "e", "f", "e", "r", "r", "e", "d">>, <<"x">>}

SqIsolationConfigs ==
  {[SqValid EXCEPT !["db.isolation_level"] = v,
                   !["db.check_same_thread"] = Str5("f", "a", "l", "s", "e")] :
     v \in IsolationValues}

InitTx ==
  /\ cls = "SqliteDB"
  /\ props \in SqIsolationConfigs
  /\ _instance = 1
  /\ _instance_lock = None
  /\ obj = <<Constructed>>
  /\ locks = <<[owner |-> None, count |-> 0]>>
  /\ conns = <<>>
  /\ th = [t \in Threads |-> [Idle EXCEPT !.self = 1]]
  /\ calls = 0
  /\ last = NoRes
  /\ coercion = NoCoercion

\* Calls of SqliteDB that do not overlap, and the callers' statements
\* between them.
NextTx ==
  \/ \E t \in Threads : Alone(t) /\ SqOperation(t)
  \/ \E t \in Threads : Alone(t) /\ Execute(t)

SpecTx == InitTx /\ [][NextTx]_vars

\* ================================================================ claims
\* Failures of the environment: the property file cannot be read or misses
\* a key, the driver cannot connect or cannot execute a PRAGMA.
EnvFailures == {"FileNotFoundError", "ValueError", "OperationalError"}

Handle == obj[1]._conn

AllIdle == \A t \in Threads : th[t].pc = "idle"

\* The calls that start with _ensure_connection.
EnsureOps == {"get_cursor", "get_cursor_and_connection", "commit", "rollback"}

\* Thread t's call returns or raises in this step.
Returns(t) == th[t].pc # "idle" /\ th'[t].pc = "idle"

\* The connection a call that returned normally worked on.
UsedConn(r) == IF r.kind \in {"cursor", "pair"} THEN r.cur ELSE r.conn

Normal(r) == r.kind \in {"cursor", "pair", "ok"}

\* C1 (as amended): concurrent get_cursor calls on the constructed manager
\* with an empty handle open at most one physical connection; every caller
\* that receives a cursor receives a cursor of that one connection, which is
\* the handle; and a caller whose call does not fail in the environment
\* receives a cursor unless the connection is an sqlite3 connection with
\* check_same_thread true that another thread opened: that caller gets
\* sqlite3.ProgrammingError.
C1_OneConnection ==
  /\ Len(conns) <= 1
  /\ last.kind = "cursor" => (Len(conns) = 1 /\ last.cur = 1 /\ Handle = 1)
  /\ (last.op = "get_cursor" /\ last.exc \notin EnvFailures)
       => \/ last.kind = "cursor"
          \/ /\ last.exc = "ProgrammingError"
             /\ cls = "SqliteDB" /\ Len(conns) = 1
             /\ conns[1].check_same_thread /\ conns[1].thread # last.t

\* C1 witness: a thread that started get_cursor while the handle was empty
\* received a cursor of the one connection, which another thread opened.
C1_Witness ==
  /\ last.kind = "cursor" /\ last.h0 = None
  /\ Len(conns) = 1 /\ last.cur = 1 /\ conns[1].thread # last.t

\* C1 (original): a get_cursor call that does not fail in the environment
\* gives its caller a cursor of the one connection.
C1_AllCallersGetCursors ==
  (last.op = "get_cursor" /\ last.exc \notin EnvFailures)
    => (last.kind = "cursor" /\ last.cur = 1)

\* C2: at most one physical connection opened by the manager is open, under
\* any interleaving of constructor calls and operations.
C2_AtMostOneOpen == Cardinality(OpenConns) <= 1

\* C3: the instance is allocated once, and every constructor call returns it.
C3_Singleton ==
  /\ Len(obj) <= 1
  /\ \A t \in Threads :
       th[t].self # None => th[t].self = 1 /\ _instance = 1

\* C3 witness: a thread that passed the check outside the lock finds the
\* instance allocated when it checks again inside the lock, and another
\* thread's call has returned the instance.
C3_Witness ==
  \E t, u \in Threads :
    /\ At(t, "new_recheck") /\ _instance = 1
    /\ last.kind = "instance" /\ last.t = u /\ th[u].self = 1

\* C4: the body of __init__ runs once: the guard is created once (and the
\* handle is set to None once).
C4_InitRunsOnce == Len(locks) <= 1

\* C5: (calls that do not overlap) a close() that returns leaves the handle
\* empty, and a call that starts with the empty handle and does not fail in
\* the environment returns normally on a connection opened during the call:
\* the newest one, open, never closed, stored in the handle, and of the same
\* configuration as the first connection.
C5_LazyReinit ==
  [][\A t \in Threads :
       /\ (Returns(t) /\ th[t].op = "close" /\ last'.kind = "ok")
            => obj'[1]._conn = None
       /\ (Returns(t) /\ th[t].op \in EnsureOps /\ th[t].h0 = None
              /\ last'.exc \notin EnvFailures)
            => /\ Normal(last')
               /\ LET c == UsedConn(last') IN
                    /\ c = Len(conns')
                    /\ conns'[c].open /\ conns'[c].closes = 0
                    /\ obj'[1]._conn = c
                    /\ conns'[c].check_same_thread = conns'[1].check_same_thread
                    /\ last'.kind = "pair" => last'.conn = c]_vars

\* C5 witness: after the first connection was closed by close(), a call
\* returned normally on the second connection.
C5_Witness ==
  /\ Normal(last) /\ last.h0 = None /\ UsedConn(last) = 2
  /\ Len(conns) = 2 /\ conns[1].closes = 1 /\ conns[2].open /\ Handle = 2

\* C6: close() raises no error, leaves the handle empty, and no connection
\* is closed twice.
C6_CloseIdempotent ==
  [][\A t \in Threads :
       (Returns(t) /\ th[t].op = "close")
         => /\ last'.kind = "ok"
            /\ obj'[1]._conn = None
            /\ \A c \in 1..Len(conns') : conns'[c].closes <= 1]_vars

\* C7: embedded backend: between calls the handle is empty or holds a tuned
\* connection, and no caller receives a cursor of an untuned connection.
C7_UntunedDiscarded ==
  cls = "SqliteDB" =>
    /\ AllIdle => (Handle = None \/ conns[Handle].tuned)
    /\ last.kind \in {"cursor", "pair"} => conns[last.cur].tuned

\* C8: networked backend (calls that do not overlap): a connection is
\* opened only while the handle is empty or holds a closed connection; a
\* get_cursor that starts with a closed connection in the handle and does
\* not fail in the environment returns a cursor of a connection it opened
\* and stored in the handle, not of the connection found closed.
C8_ReconnectOnDemand ==
  [][cls = "PostgresDB" =>
       /\ Len(conns') > Len(conns)
            => (obj[1]._conn = None \/ ~conns[obj[1]._conn].open)
       /\ \A t \in Threads :
            (Returns(t) /\ th[t].op = "get_cursor" /\ th[t].h0 # None
               /\ ~conns[th[t].h0].open /\ last'.exc \notin EnvFailures)
              => /\ last'.kind = "cursor"
                 /\ last'.cur = Len(conns') /\ last'.cur # th[t].h0
                 /\ obj'[1]._conn = last'.cur
                 /\ conns'[last'.cur].open]_vars

\* C8 witness: the server dropped the first connection, and get_cursor
\* returned a cursor of the second.
C8_Witness ==
  /\ cls = "PostgresDB"
  /\ last.kind = "cursor" /\ last.op = "get_cursor"
  /\ last.h0 = 1 /\ last.cur = 2
  /\ ~conns[1].open /\ conns[1].closes = 0 /\ Handle = 2

\* C9: PostgresDB with a set of required keys (db.host, db.name, db.user,
\* db.password) absent or empty: every call that builds the descriptor raises
\* one error (ValueError naming exactly the keys of that set, each once, or
\* the loader's failure before the keys are looked at), no call reaches
\* psycopg2.connect, no connection exists and the handle stays None.
MissingKeys == {k \in RequiredKeys : ~Truthy(props[k])}

C9_MissingKeysListed ==
  MissingKeys # {} =>
    /\ \A t \in Threads : th[t].pc # "ens_connect"
    /\ Len(conns) = 0
    /\ Handle = None
    /\ last.op \in EnsureOps =>
         /\ last.kind = "exc"
         /\ \/ last.exc = "FileNotFoundError"
            \/ /\ last.exc = "ValueError"
               /\ {last.keys[i] : i \in 1..Len(last.keys)} = MissingKeys
               /\ Len(last.keys) = Cardinality(MissingKeys)

\* A call raised the error for db.host and db.user missing together.
C9_Witness ==
  /\ MissingKeys = {"db.host", "db.user"}
  /\ last.exc = "ValueError"
  /\ last.keys = <<"db.host", "db.user">>
  /\ Handle = None

\* C10: under weak fairness of the threads every call that a thread has
\* started returns or raises.
C10_CallsReturn == \A t \in Threads : (th[t].pc # "idle") ~> (th[t].pc = "idle")

\* C10 witness: a call raised inside the with block while another thread
\* waits for the guard, and the guard is free again.
C10_Witness ==
  /\ last.kind = "exc" /\ last.exc \in EnvFailures
  /\ \E u \in Threads :
       /\ th[u].pc \in {"ens_lock", "close_lock"}
       /\ locks[th[u].lk].owner = None

\* C11: SqliteDB with db.check_same_thread true (also when the key is absent):
\* a call returns a cursor only to the thread that opened the connection of
\* the cursor, and that connection is the one in the handle.
SameThreadRequired ==
  LET v == props["db.check_same_thread"]
  IN  v = PyNone \/ Lower(Strip(v)) \in TrueWords

C11_CreatorOnly ==
  (cls = "SqliteDB" /\ SameThreadRequired /\ last.kind \in {"cursor", "pair"})
    => (conns[last.cur].thread = last.t /\ Handle = last.cur)

\* C11 witness: get_cursor called by a thread that did not open the open
\* connection of the handle raised instead of returning a cursor.
C11_Witness ==
  /\ cls = "SqliteDB" /\ SameThreadRequired
  /\ last.op = "get_cursor" /\ last.exc = "ProgrammingError"
  /\ Handle # None /\ conns[Handle].open /\ conns[Handle].thread # last.t

\* C12 (as amended): "Yes", "ON" and "1", in any letter case and with
\* surrounding whitespace, coerce to true with either default; "0", "false"
\* and "" coerce to false with either default; an absent value coerces to
\* the default.
PyBool(b) == IF b THEN "True" ELSE "False"

C12_Coercion ==
  coercion.result # "none" =>
    /\ coercion.word \in {<<"y", "e", "s">>, <<"o", "n">>, <<"1">>}
         => coercion.result = "True"
    /\ coercion.word \in {<<"0">>, <<"f", "a", "l", "s", "e">>, <<>>}
         => coercion.result = "False"
    /\ coercion.word = PyNone => coercion.result = PyBool(coercion.default)

\* C12 witness: " yES " was coerced with the default false.
C12_Witness ==
  /\ coercion.value = <<" ", "y", "E", "S", " ">>
  /\ ~coercion.default /\ coercion.result = "True"

\* C12 (original): "0", "false", "" and the absent value coerce to the
\* default.
C12_FalseWordsGiveDefault ==
  (coercion.result # "none"
     /\ coercion.word \in {<<"0">>, <<"f", "a", "l", "s", "e">>, <<>>, PyNone})
    => coercion.result = PyBool(coercion.default)

\* C13: a get_cursor, commit or rollback call calls the driver's connect at
\* most once; a step in which building the descriptor or connecting fails
\* ends the call with that error, leaves the handle as it was, and the
\* handle holds no open connection afterwards; a call that starts with the
\* empty handle and returns normally has gone through the creation path.
SingleEnsureOps == {"get_cursor", "commit", "rollback"}

Creating(t) ==
  \/ th[t].pc = "ens_connect"
  \/ /\ th[t].pc = "ens_check"
     /\ \/ obj[1]._conn = None
        \/ cls = "PostgresDB" /\ ~conns[obj[1]._conn].open

C13_NoRetry ==
  [][\A t \in Threads :
       /\ th'[t].op \in SingleEnsureOps => th'[t].attempts <= 1
       /\ (Returns(t) /\ th[t].op \in SingleEnsureOps) => last'.attempts <= 1
       /\ (Creating(t) /\ th'[t] # th[t] /\ Len(conns') = Len(conns))
            => \/ th[t].pc = "ens_check" /\ th'[t].pc = "ens_connect"
               \/ /\ Returns(t) /\ last'.kind = "exc"
                  /\ last'.exc \in EnvFailures
                  /\ obj'[1]._conn = obj[1]._conn
                  /\ obj'[1]._conn = None \/ ~conns'[obj'[1]._conn].open
       /\ (Returns(t) /\ th[t].op \in SingleEnsureOps /\ th[t].h0 = None
              /\ Normal(last') /\ UsedConn(last') = Len(conns')
              /\ conns'[Len(conns')].thread = t)
            => last'.attempts = 1]_vars

\* C13 witness: the first call failed and opened nothing; the caller's next
\* call went through the creation path and returned normally.
C13_Witness ==
  /\ AllIdle /\ calls = 2
  /\ Normal(last) /\ last.h0 = None /\ last.attempts = 1
  /\ Len(conns) = 1 /\ Handle = 1 /\ conns[1].open

\* C14 (as amended): SqliteDB: with db.isolation_level absent, empty or
\* whitespace every connection is in autocommit mode, has no open
\* transaction, and the effect of each statement is visible to a second
\* connection at once; with a level of sqlite3 (DEFERRED, IMMEDIATE,
\* EXCLUSIVE, in any letter case) every connection has that level, the
\* effect of a
\* data-modifying statement becomes visible only in a step in which commit()
\* commits on that connection, and rollback() discards the open transaction
\* and makes nothing visible; with any other string no connection exists.
Iso == props["db.isolation_level"]

AutocommitConfigured == Iso \in {PyNone, <<>>, <<" ">>}

LevelNames ==
  {<<"D", "E", "F", "E", "R", "R", "E", "D">>,
   <<"d", "e", "f", "e", "r", "r", "e", "d">>,
   <<"I", "M", "M", "E", "D", "I", "A", "T", "E">>,
   <<"E", "X", "C", "L", "U", "S", "I", "V", "E">>}

Effects(c) == c.visible["DML"] + c.visible["DDL"]

\* commit() (rollback()) of thread t returns after the driver's call on c.
Commits(t, c) ==
  th[t].pc = "commit" /\ th[t].conn = c /\ Returns(t) /\ last'.kind = "ok"

RollsBack(t, c) ==
  th[t].pc = "rollback" /\ th[t].conn = c /\ Returns(t) /\ last'.kind = "ok"

Uninitialized == Handle = None

C15_StateMachine ==
  [][/\ calls = 0 => (Uninitialized /\ Len(conns) = 0)
     /\ \A t \in Threads :
          /\ (Returns(t) /\ th[t].op \in SingleEnsureOps /\ th[t].h0 = None
                 /\ last'.exc \notin EnvFailures)
               => /\ Normal(last')
                  /\ obj'[1]._conn # None /\ conns'[obj'[1]._conn].open
                  /\ th[t].op = "get_cursor"
                       => (last'.kind = "cursor" /\ last'.cur = obj'[1]._conn)
          /\ (Returns(t) /\ th[t].op = "close") => obj'[1]._conn = None
          /\ (th[t].pc \in {"row_factory", "cursor"} /\ th'[t] # th[t])
               => (obj' = obj /\ OpenConns' = OpenConns)]_vars

\* C16: under any interleaving of get_cursor calls, a get_cursor(True) call
\* that returns a cursor returns one whose rows are addressable by column
\* name and by position.
C16_MappingRows ==
  [][\A t \in Threads :
       (Returns(t) /\ th[t].op = "get_cursor" /\ th[t].dict
          /\ last'.kind = "cursor")
         => /\ ByName(RowType(last'.mapping))
            /\ ByPosition(RowType(last'.mapping))]_vars

\* C17: once __init__ has set the handle, a step changes the handle only if
\* it is a step of a thread that holds a connection guard, and at most one
\* thread is inside a with block of a guard (the create, close and reconnect
\* transitions).
Holds(t) == \E l \in 1..Len(locks) : locks[l].owner = t

C17_HandleUnderGuard ==
  [][/\ (Len(obj) = 1 /\ obj[1]._conn # Unset /\ obj'[1]._conn # obj[1]._conn)
          => \E t \in Threads : Holds(t) /\ th'[t] # th[t]
     /\ Cardinality({t \in Threads : Holds(t)}) <= 1]_vars

\* C18: under any interleaving with close() and server drops, a pair
\* returned by get_cursor_and_connection is a cursor and the connection of
\* that cursor, and the call has opened at most one connection.
C18_ConsistentPair ==
  last.kind = "pair" => (last.cur = last.conn /\ last.attempts <= 1)

C20_RowModeByArgument ==
  [][/\ \A t \in Threads :
          (Returns(t) /\ th[t].op = "get_cursor" /\ last'.kind = "cursor")
            => ByName(RowType(last'.mapping)) = th[t].dict
     /\ \A c \in 1..Len(conns) :
          conns'[c].row_factory = conns[c].row_factory]_vars

=============================================================================
